---- MODULE Spec2Model ----
(***************************************************************************)
(* A model of mongoengine/fields.py: the field types' validate, to_python  *)
(* and to_mongo functions, and the ReferenceField descriptor that lazily   *)
(* dereferences a DBRef held in a document instance's _data.               *)
(*                                                                         *)
(* Python values are records tagged by "kind" (the value's type):          *)
(*   NoneType; bool, int, long (n: the number); float (num: the number in  *)
(*   units of 1/FloatDenom); str (s: bytes), unicode (s: code points);     *)
(*   datetime (t); list, tuple (items); dict (a stored mapping);           *)
(*   ObjectId (bytes); DBRef (collection, id); Document and                *)
(*   EmbeddedDocument instances (cls, and obj: the object's identity).     *)
(* A call's outcome is a record [exc, msg, val]: exc = "" is a normal      *)
(* return of val, otherwise exc names the exception raised.                *)
(***************************************************************************)
EXTENDS Integers, Sequences, FiniteSets, TLC

VARIABLES data, db, lookups, nextObj, ret, call

vars == <<data, db, lookups, nextObj, ret, call>>

(***************************** bounds **************************************)
MaxLookups == 3
MaxStrLen == 3
MaxRegexLen == 2
MaxInt == 2
MaxListLen == 3
FloatDenom == 2

(***************************** Python values *******************************)
None_ == [kind |-> "NoneType"]
PyInt(n) == [kind |-> "int", n |-> n]
PyLong(n) == [kind |-> "long", n |-> n]
PyBool(b) == [kind |-> "bool", n |-> IF b THEN 1 ELSE 0]
PyFloat(num) == [kind |-> "float", num |-> num]
PyStr(s) == [kind |-> "str", s |-> s]
PyUnicode(s) == [kind |-> "unicode", s |-> s]
PyDateTime(t) == [kind |-> "datetime", t |-> t]
PyList(items) == [kind |-> "list", items |-> items]
PyTuple(items) == [kind |-> "tuple", items |-> items]
ObjectId_(bytes) == [kind |-> "ObjectId", bytes |-> bytes]
DBRef(collection, id) == [kind |-> "DBRef", collection |-> collection, id |-> id]
Son(collection, id) == [kind |-> "dict", collection |-> collection, id |-> id]
DocumentObj(cls, id, obj) == [kind |-> "Document", cls |-> cls, id |-> id, obj |-> obj]

Returned(v) == [exc |-> "", msg |-> "", val |-> v]
Raised(exc, msg) == [exc |-> exc, msg |-> msg, val |-> None_]

\* isinstance(value, classes): bool is a subclass of int
IsInstance(value, classes) ==
    \/ value.kind \in classes
    \/ value.kind = "bool" /\ "int" \in classes

(***************************** numbers and text ****************************)
\* A number in units of 1/FloatDenom, the scale the comparisons are made on.
Scaled(v) == IF v.kind = "float" THEN v.num ELSE v.n * FloatDenom

IsNumber(v) == v.kind \in {"bool", "int", "long", "float"}
IsText(v) == v.kind \in {"str", "unicode"}

AllAscii(s) == \A k \in 1..Len(s) : s[k] < 128
IsDigit(c) == c >= 48 /\ c <= 57

RECURSIVE DigitsValue(_)
DigitsValue(s) ==
    IF Len(s) = 0 THEN 0
    ELSE 10 * DigitsValue(SubSeq(s, 1, Len(s) - 1)) + (s[Len(s)] - 48)

RECURSIVE DecimalDigits(_)
DecimalDigits(n) ==
    IF n < 10 THEN <<48 + n>>
    ELSE DecimalDigits(n \div 10) \o <<48 + (n % 10)>>

\* the decimal text of an integer, as str(n) writes it
IntText(n) == IF n < 0 THEN <<45>> \o DecimalDigits(0 - n) ELSE DecimalDigits(n)

\* an integer literal: an optional sign and at least one digit
IsIntLiteral(s) ==
    LET body == IF Len(s) > 0 /\ s[1] \in {43, 45} THEN Tail(s) ELSE s IN
    Len(body) > 0 /\ \A k \in 1..Len(body) : IsDigit(body[k])

IntLiteralValue(s) ==
    IF s[1] = 45 THEN 0 - DigitsValue(Tail(s))
    ELSE IF s[1] = 43 THEN DigitsValue(Tail(s))
    ELSE DigitsValue(s)

\* truncation toward zero of num / FloatDenom
Truncate(num) ==
    IF num >= 0 THEN num \div FloatDenom ELSE 0 - ((0 - num) \div FloatDenom)

\* Python's ==
PyEq(a, b) ==
    IF IsNumber(a) /\ IsNumber(b) THEN Scaled(a) = Scaled(b)
    ELSE IF IsText(a) /\ IsText(b)
         THEN IF a.kind = b.kind THEN a.s = b.s
              ELSE a.s = b.s /\ AllAscii(a.s)
    ELSE a = b

(***************************** StringField *********************************)
\* A compiled pattern is a sequence of character classes (sets of characters);
\* re.match anchors it at the start of the value and lets the value go on.
ReMatch(pattern, s) ==
    /\ Len(s) >= Len(pattern)
    /\ \A k \in 1..Len(pattern) : s[k] \in pattern[k]

ReSearch(pattern, s) ==
    \E from \in 0..Len(s) :
        /\ Len(s) - from >= Len(pattern)
        /\ \A k \in 1..Len(pattern) : s[from + k] \in pattern[k]

\* StringField.__init__: an absent or empty regex leaves self.regex None.
\* An optional attribute is <<>> (None) or <<x>>.
StringField(regex, max_length) ==
    [type |-> "StringField",
     regex |-> IF Len(regex) = 1 /\ Len(regex[1]) > 0 THEN regex ELSE <<>>,
     max_length |-> max_length]

\* unicode(value)
StringField_to_python(self, value) ==
    CASE value.kind = "unicode" -> Returned(value)
      [] value.kind = "str" ->
            IF AllAscii(value.s) THEN Returned(PyUnicode(value.s))
            ELSE Raised("UnicodeDecodeError", "")
      [] value.kind \in {"int", "long"} -> Returned(PyUnicode(IntText(value.n)))
      [] value.kind = "bool" ->
            Returned(PyUnicode(IF value.n = 1 THEN <<84, 114, 117, 101>>
                               ELSE <<70, 97, 108, 115, 101>>))
      [] value.kind = "NoneType" -> Returned(PyUnicode(<<78, 111, 110, 101>>))

\* A mutant: re.search in place of re.match.
StringField_validate_search(self, value) ==
    IF ~IsInstance(value, {"str", "unicode"})
    THEN Raised("AssertionError", "")
    ELSE IF Len(self.max_length) = 1 /\ Len(value.s) > self.max_length[1]
    THEN Raised("ValidationError", "String value is too long")
    ELSE IF Len(self.regex) = 1 /\ ~ReSearch(self.regex[1], value.s)
    THEN Raised("ValidationError", "String value did not match validation regex")
    ELSE Returned(None_)

StringField_validate(self, value) ==
    IF ~IsInstance(value, {"str", "unicode"})
    THEN Raised("AssertionError", "")
    ELSE IF Len(self.max_length) = 1 /\ Len(value.s) > self.max_length[1]
    THEN Raised("ValidationError", "String value is too long")
    ELSE IF Len(self.regex) = 1 /\ ~ReMatch(self.regex[1], value.s)
    THEN Raised("ValidationError", "String value did not match validation regex")
    ELSE Returned(None_)

(***************************** IntField, FloatField ************************)
IntField(min_value, max_value) ==
    [type |-> "IntField", min_value |-> min_value, max_value |-> max_value]

\* int(value)
IntField_to_python(self, value) ==
    CASE value.kind \in {"int", "long", "bool"} -> Returned(PyInt(value.n))
      [] value.kind = "float" -> Returned(PyInt(Truncate(value.num)))
      [] IsText(value) ->
            IF IsIntLiteral(value.s) THEN Returned(PyInt(IntLiteralValue(value.s)))
            ELSE Raised("ValueError", "")
      [] OTHER -> Raised("TypeError", "")

\* Mutants: max_value checked before min_value; max_value exclusive.
IntField_validate_maxfirst(self, value) ==
    IF ~IsInstance(value, {"int", "long"})
    THEN Raised("AssertionError", "")
    ELSE IF Len(self.max_value) = 1 /\ Scaled(value) > Scaled(self.max_value[1])
    THEN Raised("ValidationError", "Integer value is too large")
    ELSE IF Len(self.min_value) = 1 /\ Scaled(value) < Scaled(self.min_value[1])
    THEN Raised("ValidationError", "Integer value is too small")
    ELSE Returned(None_)

IntField_validate_exclusive(self, value) ==
    IF ~IsInstance(value, {"int", "long"})
    THEN Raised("AssertionError", "")
    ELSE IF Len(self.min_value) = 1 /\ Scaled(value) < Scaled(self.min_value[1])
    THEN Raised("ValidationError", "Integer value is too small")
    ELSE IF Len(self.max_value) = 1 /\ Scaled(value) >= Scaled(self.max_value[1])
    THEN Raised("ValidationError", "Integer value is too large")
    ELSE Returned(None_)

IntField_validate(self, value) ==
    IF ~IsInstance(value, {"int", "long"})
    THEN Raised("AssertionError", "")
    ELSE IF Len(self.min_value) = 1 /\ Scaled(value) < Scaled(self.min_value[1])
    THEN Raised("ValidationError", "Integer value is too small")
    ELSE IF Len(self.max_value) = 1 /\ Scaled(value) > Scaled(self.max_value[1])
    THEN Raised("ValidationError", "Integer value is too large")
    ELSE Returned(None_)

FloatField(min_value, max_value) ==
    [type |-> "FloatField", min_value |-> min_value, max_value |-> max_value]

\* float(value)
FloatField_to_python(self, value) ==
    CASE value.kind = "float" -> Returned(value)
      [] value.kind \in {"int", "long", "bool"} ->
            Returned(PyFloat(value.n * FloatDenom))
      [] IsText(value) ->
            IF IsIntLiteral(value.s)
            THEN Returned(PyFloat(IntLiteralValue(value.s) * FloatDenom))
            ELSE Raised("ValueError", "")
      [] OTHER -> Raised("TypeError", "")

FloatField_validate(self, value) ==
    IF ~IsInstance(value, {"float"})
    THEN Raised("AssertionError", "")
    ELSE IF Len(self.min_value) = 1 /\ Scaled(value) < Scaled(self.min_value[1])
    THEN Raised("ValidationError", "Float value is too small")
    ELSE IF Len(self.max_value) = 1 /\ Scaled(value) > Scaled(self.max_value[1])
    THEN Raised("ValidationError", "Float value is too large")
    ELSE Returned(None_)

(***************************** BooleanField, DateTimeField *****************)
BooleanField == [type |-> "BooleanField"]

\* bool(value)
BooleanField_to_python(self, value) ==
    Returned(PyBool(CASE IsNumber(value) -> Scaled(value) # 0
                      [] IsText(value) -> Len(value.s) > 0
                      [] value.kind \in {"list", "tuple"} -> Len(value.items) > 0
                      [] value.kind = "NoneType" -> FALSE
                      [] OTHER -> TRUE))

BooleanField_validate(self, value) ==
    IF ~IsInstance(value, {"bool"}) THEN Raised("AssertionError", "")
    ELSE Returned(None_)

DateTimeField == [type |-> "DateTimeField"]

DateTimeField_validate(self, value) ==
    IF ~IsInstance(value, {"datetime"}) THEN Raised("AssertionError", "")
    ELSE Returned(None_)

\* BaseField.to_python and BaseField.to_mongo, which the fields that define
\* none of their own inherit: the value as it is.
BaseField_to_python(self, value) == Returned(value)
BaseField_to_mongo(self, value) == Returned(value)

(***************************** scalar fields, dispatched *******************)
ScalarTypes ==
    {"StringField", "IntField", "FloatField", "BooleanField", "DateTimeField"}

Scalar_validate(self, value) ==
    CASE self.type = "StringField" -> StringField_validate(self, value)
      [] self.type = "IntField" -> IntField_validate(self, value)
      [] self.type = "FloatField" -> FloatField_validate(self, value)
      [] self.type = "BooleanField" -> BooleanField_validate(self, value)
      [] self.type = "DateTimeField" -> DateTimeField_validate(self, value)

Scalar_to_python(self, value) ==
    CASE self.type = "StringField" -> StringField_to_python(self, value)
      [] self.type = "IntField" -> IntField_to_python(self, value)
      [] self.type = "FloatField" -> FloatField_to_python(self, value)
      [] self.type = "BooleanField" -> BooleanField_to_python(self, value)
      [] self.type = "DateTimeField" -> BaseField_to_python(self, value)

Scalar_to_mongo(self, value) == BaseField_to_mongo(self, value)

(***************************** ListField ***********************************)
ListField(field) == [type |-> "ListField", field |-> field]

\* the items a Python iteration of value yields (text yields its characters)
Iterate(value) ==
    IF IsText(value)
    THEN [k \in 1..Len(value.s) |-> [kind |-> value.kind, s |-> <<value.s[k]>>]]
    ELSE value.items

IsIterable(value) == IsText(value) \/ value.kind \in {"list", "tuple"}

\* [f(item) for item in items]: the list of results, or the first exception
Comprehension(results) ==
    IF \E k \in 1..Len(results) : results[k].exc # ""
    THEN results[CHOOSE k \in 1..Len(results) :
                    /\ results[k].exc # ""
                    /\ \A j \in 1..(k - 1) : results[j].exc = ""]
    ELSE Returned(PyList([k \in 1..Len(results) |-> results[k].val]))

ListField_to_python(self, value) ==
    IF ~IsIterable(value) THEN Raised("TypeError", "")
    ELSE LET items == Iterate(value) IN
         Comprehension([k \in 1..Len(items) |-> Scalar_to_python(self.field, items[k])])

ListField_to_mongo(self, value) ==
    IF ~IsIterable(value) THEN Raised("TypeError", "")
    ELSE LET items == Iterate(value) IN
         Comprehension([k \in 1..Len(items) |-> Scalar_to_mongo(self.field, items[k])])

ListField_validate(self, value) ==
    IF ~IsInstance(value, {"list", "tuple"})
    THEN Raised("ValidationError", "Only lists and tuples may be used in a list field")
    ELSE LET r == Comprehension([k \in 1..Len(value.items) |->
                                    Scalar_validate(self.field, value.items[k])])
         IN IF r.exc # ""
            THEN Raised("ValidationError",
                        "All items in a list field must be of the specified type")
            ELSE Returned(None_)

(***************************** EmbeddedDocumentField ***********************)
EmbeddedDocumentField(document) ==
    [type |-> "EmbeddedDocumentField", document |-> document]

EmbeddedObj(cls, son) == [kind |-> "EmbeddedDocument", cls |-> cls, son |-> son]
PyDict(city) == [kind |-> "dict", city |-> city]

\* EmbeddedDocument._from_son
Embedded_from_son(document, son) == EmbeddedObj(document, son)

EmbeddedDocumentField_to_python(self, value) ==
    IF ~(value.kind = "EmbeddedDocument" /\ value.cls = self.document)
    THEN Returned(Embedded_from_son(self.document, value))
    ELSE Returned(value)

(***************************** documents ***********************************)
\* The document type the reference fields point at.
Author == [name |-> "Author", collection |-> "authors"]

OidA == ObjectId_(<<74, 161, 11, 46, 200, 3, 90, 1, 0, 0, 0, 1>>)
OidB == ObjectId_(<<74, 161, 11, 46, 200, 3, 90, 1, 0, 0, 0, 2>>)

Instances == {"post1", "post2"}
NoInstance == "None"
ReferenceField(name, document_type) ==
    [type |-> "ReferenceField", name |-> name, document_type |-> document_type]
RefFields == {ReferenceField("author", Author), ReferenceField("editor", Author)}
RefNames == {f.name : f \in RefFields}
Names == RefNames \cup {"title"}

\* Document._from_son: the instance built from a stored mapping; obj is the
\* identity of the new object.
FromSon(document_type, son, obj) == DocumentObj(document_type.name, son.id, obj)

\* Database.dereference: the stored mapping the DBRef names, or None.
Dereference(database, dbref) ==
    IF [collection |-> dbref.collection, id |-> dbref.id] \in database
    THEN Son(dbref.collection, dbref.id)
    ELSE None_

\* BaseField.__get__: the value the instance holds for the field.
BaseField_get(self, instance, d) == d[instance][self.name]

\* Mutants of ReferenceField.__get__: one that returns what it built without
\* storing it, one that stores None when storage resolves nothing.
ReferenceField_get_nocache(self, instance, d, database, next) ==
    IF instance = NoInstance
    THEN [data |-> d, val |-> self, looked |-> 0, nextObj |-> next]
    ELSE LET value == d[instance][self.name] IN
         IF value.kind = "DBRef"
         THEN LET son == Dereference(database, value) IN
              [data |-> d,
               val |-> IF son # None_ THEN FromSon(self.document_type, son, next)
                       ELSE None_,
               looked |-> 1,
               nextObj |-> IF son # None_ THEN next + 1 ELSE next]
         ELSE [data |-> d, val |-> value, looked |-> 0, nextObj |-> next]

ReferenceField_get_cachefail(self, instance, d, database, next) ==
    IF instance = NoInstance
    THEN [data |-> d, val |-> self, looked |-> 0, nextObj |-> next]
    ELSE LET value == d[instance][self.name] IN
         IF value.kind = "DBRef"
         THEN LET son == Dereference(database, value)
                  d2 == [d EXCEPT ![instance][self.name] =
                            IF son # None_
                            THEN FromSon(self.document_type, son, next)
                            ELSE None_]
              IN [data |-> d2,
                  val |-> BaseField_get(self, instance, d2),
                  looked |-> 1,
                  nextObj |-> IF son # None_ THEN next + 1 ELSE next]
         ELSE [data |-> d, val |-> value, looked |-> 0, nextObj |-> next]

\* ReferenceField.__get__(self, instance, owner) on the instances' _data d:
\* the new _data, the value returned, the number of storage lookups issued
\* and the next free object identity.
ReferenceField_get(self, instance, d, database, next) ==
    IF instance = NoInstance
    THEN [data |-> d, val |-> self, looked |-> 0, nextObj |-> next]
    ELSE LET value == d[instance][self.name] IN
         IF value.kind = "DBRef"
         THEN LET son == Dereference(database, value)
                  d2 == IF son # None_
                        THEN [d EXCEPT ![instance][self.name] =
                                 FromSon(self.document_type, son, next)]
                        ELSE d
              IN [data |-> d2,
                  val |-> BaseField_get(self, instance, d2),
                  looked |-> 1,
                  nextObj |-> IF son # None_ THEN next + 1 ELSE next]
         ELSE [data |-> d,
               val |-> BaseField_get(self, instance, d),
               looked |-> 0,
               nextObj |-> next]

(***************************** ReferenceField.to_mongo **********************)
IsHexDigit(c) == (c >= 48 /\ c <= 57) \/ (c >= 97 /\ c <= 102) \/ (c >= 65 /\ c <= 70)
HexValue(c) == IF c <= 57 THEN c - 48 ELSE IF c >= 97 THEN c - 87 ELSE c - 55
HexDigit(v) == IF v < 10 THEN 48 + v ELSE 87 + v

\* twelve bytes from twenty-four hexadecimal digits, and back
HexDecode(s) ==
    [k \in 1..(Len(s) \div 2) |-> 16 * HexValue(s[2 * k - 1]) + HexValue(s[2 * k])]
HexEncode(bytes) ==
    [k \in 1..(2 * Len(bytes)) |->
        IF k % 2 = 1 THEN HexDigit(bytes[(k + 1) \div 2] \div 16)
        ELSE HexDigit(bytes[k \div 2] % 16)]

\* pymongo.objectid.ObjectId(oid): twelve raw bytes, or their twenty-four
\* hexadecimal digits; any other text is an InvalidId.
ObjectId(oid) ==
    IF oid.kind = "ObjectId" THEN Returned(oid)
    ELSE IF IsText(oid)
    THEN IF Len(oid.s) = 12 THEN Returned(ObjectId_(oid.s))
         ELSE IF Len(oid.s) = 24 /\ \A k \in 1..24 : IsHexDigit(oid.s[k])
         THEN Returned(ObjectId_(HexDecode(oid.s)))
         ELSE Raised("InvalidId", "")
    ELSE Raised("TypeError", "")

\* A mutant: the identifier is not checked for None, and ObjectId(None) makes
\* up an identifier.
ReferenceField_to_mongo_nocheck(self, document) ==
    IF ~IsInstance(document, {"str", "unicode", "ObjectId"})
       /\ document.kind # "Document"
    THEN Raised("AttributeError", "")
    ELSE LET id_ == IF IsInstance(document, {"str", "unicode", "ObjectId"})
                    THEN document ELSE document.id
             oid == IF id_.kind = "ObjectId" THEN Returned(id_)
                    ELSE IF id_.kind = "NoneType" THEN Returned(OidB)
                    ELSE ObjectId(id_)
         IN IF oid.exc # "" THEN oid
            ELSE Returned(DBRef(self.document_type.collection, oid.val))

ReferenceField_to_mongo(self, document) ==
    IF ~IsInstance(document, {"str", "unicode", "ObjectId"})
       /\ document.kind # "Document"
    THEN Raised("AttributeError", "")
    ELSE LET id_ == IF IsInstance(document, {"str", "unicode", "ObjectId"})
                    THEN document ELSE document.id
         IN IF document.kind = "Document" /\ id_ = None_
            THEN Raised("ValidationError",
                        "You can only reference documents once they have been saved to the database")
            ELSE LET oid == IF id_.kind # "ObjectId" THEN ObjectId(id_)
                            ELSE Returned(id_)
                 IN IF oid.exc # "" THEN oid
                    ELSE Returned(DBRef(self.document_type.collection, oid.val))

(***************************** every field, dispatched **********************)
Field_validate(self, value) ==
    IF self.type = "ListField" THEN ListField_validate(self, value)
    ELSE Scalar_validate(self, value)

Field_to_python(self, value) ==
    CASE self.type = "ListField" -> ListField_to_python(self, value)
      [] self.type = "EmbeddedDocumentField" -> EmbeddedDocumentField_to_python(self, value)
      [] self.type = "ReferenceField" -> BaseField_to_python(self, value)
      [] OTHER -> Scalar_to_python(self, value)

Field_to_mongo(self, value) ==
    CASE self.type = "ListField" -> ListField_to_mongo(self, value)
      [] self.type = "ReferenceField" -> ReferenceField_to_mongo(self, value)
      [] OTHER -> Scalar_to_mongo(self, value)

(***************************** the descriptor's state machine **************)
\* Objects the application built itself have identity 0; _from_son's are 1, 2, ...
Title == PyUnicode(<<97>>)
RefSlotValues ==
    {None_, DBRef(Author.collection, OidA), DBRef(Author.collection, OidB),
     DocumentObj(Author.name, OidA, 0), Title}

NoRet == [op |-> "none", instance |-> NoInstance, name |-> "", before |-> None_,
          val |-> None_, looked |-> 0]
NoCall == [op |-> "none"]

Init ==
    /\ data \in [Instances -> {d \in [Names -> RefSlotValues] : d["title"] = Title}]
    /\ db \in {{}, {[collection |-> Author.collection, id |-> OidA]}}
    /\ lookups = 0
    /\ nextObj = 1
    /\ ret = NoRet
    /\ call = NoCall

\* instance.<name> is read
Get(instance, self) ==
    /\ LET r == ReferenceField_get(self, instance, data, db, nextObj) IN
        /\ lookups + r.looked <= MaxLookups
        /\ data' = r.data
        /\ lookups' = lookups + r.looked
        /\ nextObj' = r.nextObj
        /\ ret' = [op |-> "get", instance |-> instance, name |-> self.name,
                   before |-> data[instance][self.name], val |-> r.val,
                   looked |-> r.looked]
    /\ UNCHANGED <<db, call>>

\* <Document class>.<name> is read
GetOnClass(self) ==
    /\ LET r == ReferenceField_get(self, NoInstance, data, db, nextObj) IN
        /\ data' = r.data
        /\ lookups' = lookups + r.looked
        /\ nextObj' = r.nextObj
        /\ ret' = [op |-> "get", instance |-> NoInstance, name |-> self.name,
                   before |-> None_, val |-> r.val, looked |-> r.looked]
    /\ UNCHANGED <<db, call>>

Next ==
    \/ \E i \in Instances, f \in RefFields : Get(i, f)
    \/ \E f \in RefFields : GetOnClass(f)

Spec == Init /\ [][Next]_vars

(***************************** calls of the fields' functions ***************)
\* '1', 'a' and 0xE9 (a byte that is not ASCII; the code point of e-acute)
Alphabet == {49, 97, 233}
Strings == UNION {[1..n -> Alphabet] : n \in 0..MaxStrLen}
TextValues == {PyStr(s) : s \in Strings} \cup {PyUnicode(s) : s \in Strings}
IntRange == (0 - MaxInt - 1)..(MaxInt + 1)
IntValues == {PyInt(n) : n \in IntRange} \cup {PyLong(n) : n \in IntRange}
BoolValues == {PyBool(TRUE), PyBool(FALSE)}
FloatValues ==
    {PyFloat(num) : num \in (0 - (MaxInt + 1) * FloatDenom)..((MaxInt + 1) * FloatDenom)}
DateTimeValues == {PyDateTime(0), PyDateTime(1)}
\* a few values of every kind, given to the fields of another kind
Samples ==
    {None_, PyInt(0), PyInt(MaxInt + 1), PyLong(1), PyBool(TRUE), PyBool(FALSE),
     PyFloat(1), PyFloat(0 - FloatDenom), PyStr(<<>>), PyStr(<<49>>),
     PyUnicode(<<97>>), PyStr(<<233>>), PyDateTime(0)}

ListElems == {None_, PyInt(0), PyInt(MaxInt), PyInt(MaxInt + 1), PyStr(<<97>>)}
ListItems == UNION {[1..n -> ListElems] : n \in 0..MaxListLen}
ListValues == {PyList(items) : items \in ListItems} \cup {PyTuple(items) : items \in ListItems}

\* character classes: one character, or any character
Atoms == {{49}, {97}, Alphabet}
Patterns == UNION {[1..n -> Atoms] : n \in 0..MaxRegexLen}
Optional(S) == {<<>>} \cup {<<x>> : x \in S}

StringFields ==
    {StringField(regex, max_length) :
        regex \in Optional(Patterns), max_length \in Optional(0..MaxStrLen)}
IntBounds == Optional({PyInt(n) : n \in (0 - MaxInt)..MaxInt})
IntFields == {IntField(min_value, max_value) : min_value \in IntBounds, max_value \in IntBounds}
FloatBounds == Optional({PyFloat(num) : num \in (0 - MaxInt * FloatDenom)..(MaxInt * FloatDenom)})
FloatFields ==
    {FloatField(min_value, max_value) : min_value \in FloatBounds, max_value \in FloatBounds}
ListFields ==
    {ListField(field) : field \in IntFields \cup {BooleanField, StringField(<<>>, <<1>>)}}
AddressField == EmbeddedDocumentField("Address")
AuthorField == ReferenceField("author", Author)

\* identifiers as text: "A1", twelve bytes, twenty-four hexadecimal digits,
\* twenty-four characters that are not all hexadecimal digits
TextA1 == <<65, 49>>
Text12 == <<74, 161, 11, 46, 200, 3, 90, 1, 0, 0, 0, 1>>
TextHex == <<52, 97, 97, 49, 48, 98, 50, 101, 99, 56, 48, 51, 53, 97, 48, 49,
             48, 48, 48, 48, 48, 48, 48, 49>>
TextNotHex == [k \in 1..24 |-> IF k = 24 THEN 122 ELSE TextHex[k]]
TextIds == {TextA1, Text12, TextHex, TextNotHex, <<>>}
Identifiers ==
    {OidA, OidB} \cup {PyStr(s) : s \in TextIds} \cup {PyUnicode(s) : s \in TextIds \ {Text12}}
ReferenceInputs ==
    Identifiers \cup {DocumentObj(Author.name, id, 0) : id \in Identifiers \cup {None_}}
        \cup {None_, PyInt(0)}
EmbeddedInputs == {PyDict(PyUnicode(<<97>>)), EmbeddedObj("Address", PyDict(PyUnicode(<<97>>)))}

Inputs(self) ==
    CASE self.type = "StringField" -> TextValues \cup Samples
      [] self.type = "IntField" -> IntValues \cup Samples
      [] self.type = "FloatField" -> FloatValues \cup Samples
      [] self.type = "BooleanField" -> BoolValues \cup Samples
      [] self.type = "DateTimeField" -> DateTimeValues \cup Samples
      [] self.type = "ListField" -> ListValues \cup Samples
      [] self.type = "EmbeddedDocumentField" -> EmbeddedInputs
      [] self.type = "ReferenceField" -> ReferenceInputs

Fields ==
    StringFields \cup IntFields \cup FloatFields \cup {BooleanField, DateTimeField}
        \cup ListFields \cup {AddressField, AuthorField}

\* the kinds of value the model of unicode(value) covers
HasToPython(self, value) ==
    self.type = "StringField" =>
        value.kind \in {"str", "unicode", "int", "long", "bool", "NoneType"}

InitFields ==
    /\ data = [i \in Instances |-> [n \in Names |-> Title]]
    /\ db = {}
    /\ lookups = 0
    /\ nextObj = 1
    /\ ret = NoRet
    /\ call \in {[op |-> "input", field |-> f, arg |-> v, src |-> v,
                  res |-> Returned(None_)] : <<f, v>> \in UNION {{f} \X Inputs(f) : f \in Fields}}

\* field.validate(value)
Validate ==
    /\ call.op = "input"
    /\ call.field.type \in ScalarTypes \cup {"ListField"}
    /\ call' = [call EXCEPT !.op = "validate",
                            !.res = Field_validate(call.field, call.arg)]
    /\ UNCHANGED <<data, db, lookups, nextObj, ret>>

\* field.to_python(value)
ToPython ==
    /\ call.op = "input"
    /\ HasToPython(call.field, call.arg)
    /\ call' = [call EXCEPT !.op = "to_python",
                            !.res = Field_to_python(call.field, call.arg)]
    /\ UNCHANGED <<data, db, lookups, nextObj, ret>>

\* field.to_mongo(value)
ToMongo ==
    /\ call.op = "input"
    /\ call.field.type # "EmbeddedDocumentField"
    /\ call' = [call EXCEPT !.op = "to_mongo",
                            !.res = Field_to_mongo(call.field, call.arg)]
    /\ UNCHANGED <<data, db, lookups, nextObj, ret>>

\* field.to_python(stored), stored being what field.to_mongo(value) returned
Load ==
    /\ call.op = "to_mongo"
    /\ call.res.exc = ""
    /\ HasToPython(call.field, call.res.val)
    /\ call' = [call EXCEPT !.op = "load", !.arg = call.res.val,
                            !.res = Field_to_python(call.field, call.res.val)]
    /\ UNCHANGED <<data, db, lookups, nextObj, ret>>

NextFields == Validate \/ ToPython \/ ToMongo \/ Load

SpecFields == InitFields /\ [][NextFields]_vars

(***************************** the descriptor's properties *****************)
Resolvable(v) == v.kind = "DBRef" /\ Dereference(db, v) # None_
Dangling(v) == v.kind = "DBRef" /\ Dereference(db, v) = None_

\* C1: a read of a slot holding a resolvable DBRef issues exactly one storage
\* lookup, stores a newly built Document in the slot and returns it; a read of
\* a slot holding a Document issues no lookup and returns that same Document;
\* and no step takes a slot that holds a Document to any other value.
C1_ResolvedOnce ==
    [][/\ \A i \in Instances, f \in RefFields :
            Get(i, f) =>
                LET v == data[i][f.name] IN
                /\ Resolvable(v) =>
                        /\ lookups' = lookups + 1
                        /\ data'[i][f.name] = FromSon(f.document_type,
                                                      Dereference(db, v), nextObj)
                        /\ ret'.val = data'[i][f.name]
                /\ v.kind = "Document" =>
                        /\ lookups' = lookups
                        /\ ret'.val = v
       /\ \A i \in Instances, n \in RefNames :
            data[i][n].kind = "Document" => data'[i][n] = data[i][n]]_vars

\* a second read has returned the Document an earlier read had built
C1_Witness ==
    /\ ret.op = "get"
    /\ ret.before.kind = "Document"
    /\ ret.before.obj >= 1
    /\ ret.val = ret.before
    /\ ret.looked = 0
    /\ lookups = 1

\* C2: a read of a slot holding a DBRef that storage does not resolve leaves
\* the DBRef in the slot, issues a lookup (again on every read) and returns
\* None.
C2_DanglingReadsNone ==
    (ret.op = "get" /\ ret.instance # NoInstance /\ Dangling(ret.before)) =>
        /\ data[ret.instance][ret.name] = ret.before
        /\ ret.looked = 1
        /\ ret.val = None_

\* C10: a read changes no slot but the one read; it changes nothing when that
\* slot holds no DBRef or a DBRef storage does not resolve; a read on the
\* document class returns the field, changes nothing and looks nothing up.
C10_ReadFrame ==
    [][/\ \A i \in Instances, f \in RefFields :
            Get(i, f) =>
                LET v == data[i][f.name] IN
                /\ \A j \in Instances, n \in Names :
                        (j # i \/ n # f.name) => data'[j][n] = data[j][n]
                /\ v.kind # "DBRef" => data' = data /\ lookups' = lookups
                /\ Dangling(v) => data' = data
       /\ \A f \in RefFields :
            GetOnClass(f) =>
                ret'.val = f /\ data' = data /\ lookups' = lookups]_vars

\* a read has replaced a DBRef by a Document while the instance's other
\* reference slot still holds its own DBRef
C10_Witness ==
    /\ ret.op = "get"
    /\ ret.instance # NoInstance
    /\ ret.before.kind = "DBRef"
    /\ data[ret.instance][ret.name].kind = "Document"
    /\ \E n \in RefNames \ {ret.name} : Resolvable(data[ret.instance][n])

(***************************** the fields' properties **********************)
\* the positions (from 0) of the items the inner field's validate rejects
FailingPositions(self, value) ==
    {k - 1 : k \in {j \in 1..Len(value.items) :
                        Scalar_validate(self.field, value.items[j]).exc # ""}}

\* C3: ListField.validate of a sequence with an item its inner field rejects
\* fails with an error that tells the failing positions: no sequence failing at
\* other positions fails with the same error.
C3_ListErrorTellsPositions ==
    (/\ call.op = "validate"
     /\ call.field.type = "ListField"
     /\ call.arg.kind \in {"list", "tuple"}
     /\ FailingPositions(call.field, call.arg) # {}) =>
        /\ call.res.exc # ""
        /\ \A w \in ListValues :
            (/\ FailingPositions(call.field, w) # {}
             /\ FailingPositions(call.field, w) # FailingPositions(call.field, call.arg))
                => ListField_validate(call.field, w) # call.res

WellFormedId(id) ==
    \/ id.kind = "ObjectId"
    \/ IsText(id) /\ Len(id.s) = 12
    \/ IsText(id) /\ Len(id.s) = 24 /\ \A k \in 1..24 : IsHexDigit(id.s[k])

\* token is a DBRef into the collection whose identifier is id as an ObjectId
TokenFor(token, collection, id) ==
    /\ token.kind = "DBRef"
    /\ token.collection = collection
    /\ token.id.kind = "ObjectId"
    /\ \/ id.kind = "ObjectId" /\ token.id = id
       \/ IsText(id) /\ token.id.bytes = id.s
       \/ IsText(id) /\ HexEncode(token.id.bytes) = id.s

GivenId(document) == IF document.kind = "Document" THEN document.id ELSE document
IsReferenceInput(document) ==
    document.kind = "Document" \/ IsText(document) \/ document.kind = "ObjectId"
Unsaved == "You can only reference documents once they have been saved to the database"

Below(self, value) ==
    Len(self.min_value) = 1 /\ Scaled(value) < Scaled(self.min_value[1])
Above(self, value) ==
    Len(self.max_value) = 1 /\ Scaled(value) > Scaled(self.max_value[1])
TooSmall(self) ==
    IF self.type = "IntField" THEN "Integer value is too small"
    ELSE "Float value is too small"
TooLarge(self) ==
    IF self.type = "IntField" THEN "Integer value is too large"
    ELSE "Float value is too large"
CanonicalKinds(self) ==
    CASE self.type = "StringField" -> {"str", "unicode"}
      [] self.type = "IntField" -> {"int", "long", "bool"}
      [] self.type = "FloatField" -> {"float"}
      [] self.type = "BooleanField" -> {"bool"}
      [] self.type = "DateTimeField" -> {"datetime"}

\* C5: IntField and FloatField validate accept a value of the field's kind
\* exactly when it is neither below min_value nor above max_value (a value
\* equal to a bound is accepted); a rejected one gets the ValidationError
\* "too small" (it is below min_value) or "too large" (it is above max_value).
C5_NumericBoundsInclusive ==
    (/\ call.op = "validate"
     /\ call.field.type \in {"IntField", "FloatField"}
     /\ call.arg.kind \in CanonicalKinds(call.field) \ {"bool"}) =>
        /\ call.res.exc = "" <=>
                ~Below(call.field, call.arg) /\ ~Above(call.field, call.arg)
        /\ call.res.exc # "" =>
            /\ call.res.exc = "ValidationError"
            /\ \/ call.res.msg = TooSmall(call.field) /\ Below(call.field, call.arg)
               \/ call.res.msg = TooLarge(call.field) /\ Above(call.field, call.arg)

\* a value equal to max_value has been accepted
C5_Witness ==
    /\ call.op = "validate"
    /\ call.field.type = "IntField"
    /\ call.arg.kind = "int"
    /\ Len(call.field.max_value) = 1
    /\ call.arg.n = call.field.max_value[1].n
    /\ Len(call.field.min_value) = 1
    /\ call.res.exc = ""

TooLong(self, value) ==
    Len(self.max_length) = 1 /\ Len(value.s) > self.max_length[1]
\* some prefix of the text is matched by the pattern, class by class
Mismatch(self, value) ==
    /\ Len(self.regex) = 1
    /\ ~\E n \in 0..Len(value.s) :
            /\ n = Len(self.regex[1])
            /\ \A k \in 1..n : value.s[k] \in self.regex[1][k]

\* C6: StringField.validate accepts a text exactly when it is no longer than
\* max_length (a text of exactly max_length is accepted) and regex matches at
\* its start; a longer text, or one regex does not match at its start, is
\* rejected with a ValidationError.
C6_StringLengthAndPattern ==
    (/\ call.op = "validate"
     /\ call.field.type = "StringField"
     /\ IsText(call.arg)) =>
        /\ call.res.exc = "" <=>
                ~TooLong(call.field, call.arg) /\ ~Mismatch(call.field, call.arg)
        /\ call.res.exc # "" => call.res.exc = "ValidationError"

\* a text of exactly max_length, longer than the pattern that matches its
\* start and would not match it further on, has been accepted
C6_Witness ==
    /\ call.op = "validate"
    /\ call.field.type = "StringField"
    /\ IsText(call.arg)
    /\ call.field.max_length = <<Len(call.arg.s)>>
    /\ Len(call.field.regex) = 1
    /\ Len(call.arg.s) > Len(call.field.regex[1])
    /\ call.arg.s[Len(call.arg.s)] \notin call.field.regex[1][1]
    /\ call.res.exc = ""

\* C7: to_python of no field raises, whatever the value.
C7_ToPythonNeverRaises ==
    call.op = "to_python" => call.res.exc = ""

\* C8: for a scalar field and a value its validate accepts, to_python of
\* to_mongo of the value returns a value equal to it.
C8_ScalarRoundTrip ==
    (/\ call.op = "load"
     /\ call.field.type \in ScalarTypes
     /\ Scalar_validate(call.field, call.src).exc = "") =>
        /\ call.res.exc = ""
        /\ PyEq(call.res.val, call.src)

====
